---- MODULE Spec2Model ----
(***************************************************************************)
(* Memory MCP server (src/index.js): the text-file tools behind tools/call *)
(* and the documents they read and rewrite.                                *)
(*                                                                         *)
(* A JavaScript string is a sequence of one-character strings, so that     *)
(* split, trim, startsWith, includes, replace and substring are computed   *)
(* character by character as the code computes them.  A path is the        *)
(* sequence of its segments.  The two JavaScript values that are not       *)
(* strings, undefined and null, are one-element sequences whose element is *)
(* no character.                                                           *)
(***************************************************************************)
EXTENDS Integers, Sequences, FiniteSets, TLC

VARIABLES
  files,    \* the regular files of the file system: path -> content
  dirs,     \* the directories of the file system: a set of paths
  clock,    \* the system clock, in days since 2024-01-01 (new Date())
  steps,    \* number of events so far: messages handled and days passed
  req,      \* the last message handled: [id, method, name, args]
  result,   \* what the tool function of the last message returned
  sent,     \* what the last message made the server write to stdout
  io,       \* the fs calls made while the last message was handled
  before,   \* files as they were when the last message arrived
  buffer,   \* readStdin's buffer: the lines read since the last frame
  eof,      \* standard input has ended
  event,    \* the last line readStdin was given
  nsent,    \* number of lines written to stdout so far
  pc,       \* where each process stands in its addTODO: idle, read or done
  local,    \* the locals of each process's addTODO: todo, filePath, content
  order     \* the fs reads and writes of the addTODOs, in the order they happened

tvars == <<buffer, eof, event, nsent>>
rvars == <<pc, local, order>>
vars == <<files, dirs, clock, steps, req, result, sent, io, before,
          buffer, eof, event, nsent, pc, local, order>>

-----------------------------------------------------------------------------
(* Bounds of the model.                                                    *)

MaxSteps == 2       \* events (messages handled, days passed) in one behaviour
MaxLines == 4       \* lines of standard input read in one behaviour
MaxDone == 1        \* how far a failing fs call gets: directories made, characters written
ExtraLines == 1     \* pairs of matching lines the large memory document holds beyond the cap

-----------------------------------------------------------------------------
(* JavaScript values and string primitives.                                *)

undefined == <<"<undefined>">>
null == <<"<null>">>

\* !x for a string, null or undefined
Falsy(x) == x = null \/ x = undefined \/ x = <<>>

\* a default parameter value: used when the argument is undefined
Default(x, d) == IF x = undefined THEN d ELSE x

\* `${x}` in a template literal
String(x) ==
  IF x = undefined THEN <<"u","n","d","e","f","i","n","e","d">>
  ELSE IF x = null THEN <<"n","u","l","l">>
  ELSE x

UpperCase == <<"A","B","C","D","E","F","G","H","I","J","K","L","M",
               "N","O","P","Q","R","S","T","U","V","W","X","Y","Z">>
LowerCase == <<"a","b","c","d","e","f","g","h","i","j","k","l","m",
               "n","o","p","q","r","s","t","u","v","w","x","y","z">>

toLowerCaseChar(c) ==
  IF \E i \in 1..26 : UpperCase[i] = c
  THEN LowerCase[CHOOSE i \in 1..26 : UpperCase[i] = c]
  ELSE c

toLowerCase(s) ==
  IF s = <<>> THEN <<>> ELSE [i \in 1..Len(s) |-> toLowerCaseChar(s[i])]

\* the white space and line terminators trim strips: space, tab, carriage
\* return, line feed, form feed and vertical tab (U+000B, the last element).
\* The others (U+00A0, U+1680, U+2000 to U+200A, U+2028, U+2029, U+202F,
\* U+205F, U+3000, U+FEFF) are not ASCII and no string of a module holds them.
WhiteSpace == {" ", "\t", "\r", "\n", "\f", ""}

\* String.prototype.trim
trim(s) ==
  LET keep == {i \in 1..Len(s) : s[i] \notin WhiteSpace}
  IN IF keep = {} THEN <<>>
     ELSE SubSeq(s, CHOOSE i \in keep : \A j \in keep : i <= j,
                    CHOOSE i \in keep : \A j \in keep : j <= i)

\* s.startsWith(p)
startsWith(s, p) == Len(p) <= Len(s) /\ SubSeq(s, 1, Len(p)) = p

\* s.indexOf(p), 1-based; 0 when p does not occur
indexOf(s, p) ==
  LET at == {i \in 1..(Len(s) - Len(p) + 1) : SubSeq(s, i, i + Len(p) - 1) = p}
  IN IF at = {} THEN 0 ELSE CHOOSE i \in at : \A j \in at : i <= j

\* s.includes(p)
includes(s, p) == indexOf(s, p) # 0

\* s.replace(p, r) with a string pattern: the first occurrence only
replace(s, p, r) ==
  LET i == indexOf(s, p)
  IN IF i = 0 THEN s
     ELSE SubSeq(s, 1, i - 1) \o r \o SubSeq(s, i + Len(p), Len(s))

\* s.substring(n)
substring(s, n) == SubSeq(s, n + 1, Len(s))

\* s.split(sep) for a one-character separator
RECURSIVE split(_, _)
split(s, sep) ==
  LET at == {i \in 1..Len(s) : s[i] = sep}
  IN IF at = {} THEN <<s>>
     ELSE LET i == CHOOSE k \in at : \A j \in at : k <= j
          IN <<SubSeq(s, 1, i - 1)>> \o split(SubSeq(s, i + 1, Len(s)), sep)

\* a.join(sep)
RECURSIVE join(_, _)
join(a, sep) ==
  IF a = <<>> THEN <<>>
  ELSE IF Len(a) = 1 THEN a[1]
  ELSE a[1] \o sep \o join(Tail(a), sep)

\* mutant of slice0: nothing is cut
slice0Unbounded(a, end) == a

\* a.slice(0, end): a negative end counts from the end of the array
slice0(a, end) ==
  LET to == IF end < 0 THEN (IF Len(a) + end < 0 THEN 0 ELSE Len(a) + end)
            ELSE (IF end > Len(a) THEN Len(a) ELSE end)
  IN SubSeq(a, 1, to)

\* lines.map((line, idx) => ({ line, idx }))
withIndex(lines) ==
  IF lines = <<>> THEN <<>>
  ELSE [i \in 1..Len(lines) |-> [line |-> lines[i], idx |-> i - 1]]

-----------------------------------------------------------------------------
(* Paths.                                                                  *)

\* path.join(dir, rel): rel is split on "/", and "", "." and ".." are resolved
RECURSIVE normalize(_, _)
normalize(base, segs) ==
  IF segs = <<>> THEN base
  ELSE LET s == Head(segs)
       IN IF s = <<>> \/ s = <<".">> THEN normalize(base, Tail(segs))
          ELSE IF s = <<".", ".">>
               THEN normalize(IF base = <<>> THEN <<>>
                              ELSE SubSeq(base, 1, Len(base) - 1), Tail(segs))
          ELSE normalize(Append(base, s), Tail(segs))

pathJoin(dir, rel) == normalize(dir, split(rel, "/"))

\* path.dirname(p)
dirname(p) == IF p = <<>> THEN <<>> ELSE SubSeq(p, 1, Len(p) - 1)

\* the directories from the root down to p, p included
Ancestors(p) == {SubSeq(p, 1, n) : n \in 0..Len(p)}

-----------------------------------------------------------------------------
(* CONFIG                                                                  *)

workspace == << <<"r","o","o","t">>,
                <<".","o","p","e","n","c","l","a","w">>,
                <<"w","o","r","k","s","p","a","c","e">> >>
memoryFile == Append(workspace, <<"M","E","M","O","R","Y",".","m","d">>)
memoryDir == Append(workspace, <<"m","e","m","o","r","y">>)
todoMarker == <<"[", " ", "]">>
doneMarker == <<"[", "x", "]">>
dotMd == <<".", "m", "d">>

Digits == {"0","1","2","3","4","5","6","7","8","9"}

\* CONFIG.dailyNotePattern.test(f): /^\d{4}-\d{2}-\d{2}\.md$/
dailyNotePattern(f) ==
  /\ Len(f) = 13
  /\ \A i \in {1, 2, 3, 4, 6, 7, 9, 10} : f[i] \in Digits
  /\ f[5] = "-" /\ f[8] = "-"
  /\ SubSeq(f, 11, 13) = dotMd

-----------------------------------------------------------------------------
(* The clock.                                                              *)

Digit(n) == CASE n = 0 -> "0" [] n = 1 -> "1" [] n = 2 -> "2" [] n = 3 -> "3"
              [] n = 4 -> "4" [] n = 5 -> "5" [] n = 6 -> "6" [] n = 7 -> "7"
              [] n = 8 -> "8" [] OTHER -> "9"

\* new Date(...).toISOString() on day `now` of January 2024, at noon UTC
toISOString(now) ==
  <<"2","0","2","4","-","0","1","-">> \o <<Digit((now + 1) \div 10), Digit((now + 1) % 10)>>
  \o <<"T","1","2",":","0","0",":","0","0",".","0","0","0","Z">>

todayStr(now) == split(toISOString(now), "T")[1]

yesterdayStr(now) == split(toISOString(now - 1), "T")[1]

-----------------------------------------------------------------------------
(* Text store.  A disk is [files, dirs, unreadable]; the fs calls a         *)
(* function makes are returned as its log, each with whether it threw.     *)

\* fault is what the environment makes of the fs calls of this message:
\*   none   every fs call succeeds
\*   read   fs.readFileSync throws
\*   mkdir  fs.mkdirSync throws after it made `done` of the missing directories
\*   open   fs.writeFileSync throws when it opens the file
\*   write  fs.writeFileSync throws after it opened (and so emptied) the file
\*          and wrote `done` characters
noFault == [call |-> "none", done |-> 0]

readFault == [call |-> "read", done |-> 0]

ReadFaults == {noFault, readFault}

Faults ==
  ReadFaults \cup {[call |-> "open", done |-> 0]}
  \cup {[call |-> c, done |-> k] : c \in {"mkdir", "write"}, k \in 0..MaxDone}

\* fs.existsSync(p)
existsSync(disk, p) == p \in DOMAIN disk.files \/ p \in disk.dirs

\* readFile(filePath): the content, or null when the path does not exist or
\* fs.readFileSync throws (the catch ignores every read error)
readFile(disk, filePath) ==
  IF filePath \in DOMAIN disk.files /\ filePath \notin disk.unreadable
  THEN disk.files[filePath]
  ELSE null

readFileLog(disk, filePath) ==
  <<[call |-> "existsSync", path |-> filePath, threw |-> FALSE]>>
  \o (IF existsSync(disk, filePath)
      THEN <<[call |-> "readFileSync", path |-> filePath,
              threw |-> filePath \notin DOMAIN disk.files
                        \/ filePath \in disk.unreadable]>>
      ELSE <<>>)

\* writeFile(filePath, content).  The catch only reports: what fs did before
\* it threw stays done.
writeFile(disk, filePath, content, fault) ==
  LET dir == dirname(filePath)
      mkdir == ~existsSync(disk, dir)
      missing == Ancestors(dir) \ disk.dirs
      blocked == \E a \in Ancestors(dir) : a \in DOMAIN disk.files
      mkdirThrows == mkdir /\ (fault.call = "mkdir" \/ blocked)
      \* the directories a failing mkdirSync got to make, outermost first
      made == IF blocked THEN {}
              ELSE {a \in missing :
                      /\ a # dir
                      /\ Cardinality({b \in missing : Len(b) < Len(a)}) < fault.done}
      dirs1 == IF ~mkdir THEN disk.dirs
               ELSE IF mkdirThrows THEN disk.dirs \cup made
               ELSE disk.dirs \cup Ancestors(dir)
      openThrows == \/ fault.call = "open"
                    \/ filePath \in disk.dirs
                    \/ dir \in DOMAIN disk.files
      written == SubSeq(content, 1, IF fault.done < Len(content) THEN fault.done
                                    ELSE Len(content))
      log == <<[call |-> "existsSync", path |-> dir, threw |-> FALSE]>>
             \o (IF mkdir
                 THEN <<[call |-> "mkdirSync", path |-> dir, threw |-> mkdirThrows]>>
                 ELSE <<>>)
             \o (IF mkdirThrows THEN <<>>
                 ELSE <<[call |-> "writeFileSync", path |-> filePath,
                         threw |-> openThrows \/ fault.call = "write"]>>)
  IN IF mkdirThrows
     THEN [success |-> FALSE, error |-> "mkdirSync failed",
           files |-> disk.files, dirs |-> dirs1, log |-> log]
     ELSE IF openThrows
     THEN [success |-> FALSE, error |-> "writeFileSync failed",
           files |-> disk.files, dirs |-> dirs1, log |-> log]
     ELSE IF fault.call = "write"
     THEN [success |-> FALSE, error |-> "writeFileSync failed",
           files |-> (filePath :> written) @@ disk.files,
           dirs |-> dirs1, log |-> log]
     ELSE [success |-> TRUE,
           files |-> (filePath :> content) @@ disk.files,
           dirs |-> dirs1, log |-> log]

\* the effect of a function that only reads
ReadOnly(disk, ret, log) ==
  [ret |-> ret, files |-> disk.files, dirs |-> disk.dirs, log |-> log]

-----------------------------------------------------------------------------
(* Memory log.                                                             *)

General == <<"G","e","n","e","r","a","l">>

\* getMemory(): readFile(CONFIG.memoryFile) || ''
getMemory(disk) ==
  LET content == readFile(disk, memoryFile)
  IN IF Falsy(content) THEN <<>> ELSE content

\* mutant of memoryEntry: the entry is appended under no heading
memoryEntryNoHeading(category, timestamp, entry) ==
  <<"\n", "-", " ", "*", "*">> \o timestamp \o <<"*", "*", ":", " ">> \o String(entry)

\* the section addMemory appends: `\n## ${category}\n- **${timestamp}**: ${entry}`
memoryEntry(category, timestamp, entry) ==
  <<"\n", "#", "#", " ">> \o String(category) \o <<"\n", "-", " ", "*", "*">>
  \o timestamp \o <<"*", "*", ":", " ">> \o String(entry)

\* mutant of appendEntry: the new entry replaces the document
appendEntryOverwrite(content, newEntry) == newEntry

\* content + newEntry
appendEntry(content, newEntry) == content \o newEntry

addMemory(disk, now, entry, categoryArg, fault) ==
  LET category == Default(categoryArg, General)
      content == getMemory(disk)
      timestamp == toISOString(now)
      newEntry == memoryEntry(category, timestamp, entry)
      newContent == appendEntry(content, newEntry)
      w == writeFile(disk, memoryFile, newContent, fault)
  IN [ret |-> [success |-> w.success, entry |-> entry,
               category |-> category, timestamp |-> timestamp],
      files |-> w.files, dirs |-> w.dirs,
      log |-> readFileLog(disk, memoryFile) \o w.log]

ResultLimit == 20

\* the lines searchMemory matches: filter on the untrimmed line, then trim,
\* then drop the blank ones
searchMatches(content, queryLower) ==
  LET lines == split(content, "\n")
      pairs == withIndex(lines)
      hits == SelectSeq(pairs, LAMBDA p : includes(toLowerCase(p.line), queryLower))
      trimmed == IF hits = <<>> THEN <<>>
                 ELSE [i \in 1..Len(hits) |-> trim(hits[i].line)]
  IN SelectSeq(trimmed, LAMBDA line : Len(line) > 0)

\* mutant of searchMemory: count is taken after the results are cut
searchMemoryCappedCount(disk, query) ==
  LET read1 == readFileLog(disk, memoryFile)
  IN IF query = undefined \/ query = null
     THEN ReadOnly(disk, [threw |-> "TypeError"], read1)
     ELSE IF Falsy(query)
     THEN ReadOnly(disk, [results |-> <<>>, message |-> "No query provided"], read1)
     ELSE LET matches == slice0(searchMatches(getMemory(disk), toLowerCase(query)),
                                ResultLimit)
          IN ReadOnly(disk,
                      [query |-> query, count |-> Len(matches), results |-> matches],
                      read1 \o readFileLog(disk, memoryFile))

\* searchMemory(query).  The memory file is read for `content` before the
\* query is looked at; an undefined or null query throws at
\* query.toLowerCase().
searchMemory(disk, query) ==
  LET read1 == readFileLog(disk, memoryFile)
  IN IF query = undefined \/ query = null
     THEN ReadOnly(disk, [threw |-> "TypeError"], read1)
     ELSE IF Falsy(query)
     THEN ReadOnly(disk, [results |-> <<>>, message |-> "No query provided"], read1)
     ELSE LET matches == searchMatches(getMemory(disk), toLowerCase(query))
          IN ReadOnly(disk,
                      [query |-> query, count |-> Len(matches),
                       results |-> slice0(matches, ResultLimit)],
                      read1 \o readFileLog(disk, memoryFile))

-----------------------------------------------------------------------------
(* Daily notes.                                                            *)

\* path.join(CONFIG.memoryDir, `${dateStr}.md`)
notePath(dateStr) == pathJoin(memoryDir, String(dateStr) \o dotMd)

getDailyNote(disk, now, dateArg) ==
  LET dateStr == Default(dateArg, todayStr(now))
      filePath == notePath(dateStr)
      content == readFile(disk, filePath)
  IN ReadOnly(disk,
              IF Falsy(content)
              THEN [exists |-> FALSE, date |-> dateStr, content |-> null]
              ELSE [exists |-> TRUE, date |-> dateStr, content |-> content],
              readFileLog(disk, filePath))

\* the line addDailyNote appends: `- **${timestamp}**: ${entry}\n`
noteEntry(timestamp, entry) ==
  <<"-", " ", "*", "*">> \o timestamp \o <<"*", "*", ":", " ">>
  \o String(entry) \o <<"\n">>

addDailyNote(disk, now, entry, dateArg, fault) ==
  LET dateStr == Default(dateArg, todayStr(now))
      filePath == notePath(dateStr)
      read == readFile(disk, filePath)
      content == IF Falsy(read) THEN <<>> ELSE read
      timestamp == toISOString(now)
      newEntry == noteEntry(timestamp, entry)
      w == writeFile(disk, filePath, appendEntry(content, newEntry), fault)
  IN [ret |-> [success |-> w.success, date |-> dateStr, entry |-> entry,
               timestamp |-> timestamp],
      files |-> w.files, dirs |-> w.dirs,
      log |-> readFileLog(disk, filePath) \o w.log]

\* The collation order of the characters a daily-note file name is made of
\* (punctuation, then digits, then letters).
Collation == <<"-", ".", "0", "1", "2", "3", "4", "5", "6", "7", "8", "9", "d", "m">>

Rank(c) == CHOOSE i \in 1..Len(Collation) : Collation[i] = c

\* a.localeCompare(b) for two file names that match dailyNotePattern:
\* negative, zero or positive
localeCompare(a, b) ==
  LET diff == {i \in 1..Len(a) : i <= Len(b) /\ a[i] # b[i]}
  IN IF diff = {} THEN Len(a) - Len(b)
     ELSE LET i == CHOOSE k \in diff : \A j \in diff : k <= j
          IN Rank(a[i]) - Rank(b[i])

\* names.sort((a, b) => b.localeCompare(a)) on distinct names: newest first
RECURSIVE sortNewestFirst(_)
sortNewestFirst(names) ==
  IF names = {} THEN <<>>
  ELSE LET first == CHOOSE a \in names : \A b \in names : localeCompare(a, b) >= 0
       IN <<first>> \o sortNewestFirst(names \ {first})

\* fs.readdirSync(dir): the names of the entries of dir
readdirSync(disk, dir) ==
  {p[Len(p)] : p \in {q \in DOMAIN disk.files \cup disk.dirs :
                        Len(q) > 0 /\ dirname(q) = dir}}

DefaultLimit == 10

\* listDailyNotes(limit).  limitArg is <<>> when the argument is absent and
\* <<n>> when the client passes the number n.
listDailyNotes(disk, limitArg) ==
  LET limit == IF limitArg = <<>> THEN DefaultLimit ELSE limitArg[1]
      log == <<[call |-> "readdirSync", path |-> memoryDir,
                threw |-> memoryDir \notin disk.dirs]>>
  IN IF memoryDir \notin disk.dirs
     THEN ReadOnly(disk, [notes |-> <<>>, count |-> 0, error |-> "readdirSync failed"], log)
     ELSE LET matching == {f \in readdirSync(disk, memoryDir) : dailyNotePattern(f)}
              sorted == sortNewestFirst(matching)
              cut == slice0(sorted, limit)
              notes == IF cut = <<>> THEN <<>>
                       ELSE [i \in 1..Len(cut) |-> replace(cut[i], dotMd, <<>>)]
          IN ReadOnly(disk, [notes |-> notes, count |-> Len(notes)], log)

-----------------------------------------------------------------------------
(* TODO engine.                                                            *)

todosHeading == <<"#", "#", " ", "T", "O", "D", "O", "s">>

\* a line getTODOs lists: its trimmed form starts with one of the markers
isTodoLine(line) ==
  startsWith(trim(line), todoMarker) \/ startsWith(trim(line), doneMarker)

getTODOs(disk, now, dateArg) ==
  LET dateStr == Default(dateArg, todayStr(now))
      note == getDailyNote(disk, now, dateStr)
  IN IF ~note.ret.exists
     THEN ReadOnly(disk, [todos |-> <<>>, date |-> dateStr], note.log)
     ELSE LET lines == split(note.ret.content, "\n")
              pairs == withIndex(lines)
              kept == SelectSeq(pairs, LAMBDA p : isTodoLine(p.line))
              todos == IF kept = <<>> THEN <<>>
                       ELSE [i \in 1..Len(kept) |->
                               [text |-> trim(substring(trim(kept[i].line), 4)),
                                done |-> startsWith(trim(kept[i].line), doneMarker),
                                line |-> kept[i].idx]]
          IN ReadOnly(disk, [todos |-> todos, date |-> dateStr, count |-> Len(todos)],
                      note.log)

\* the line addTODO appends: `- ${CONFIG.todoMarker} ${todo}\n`
todoEntry(todo) == <<"-", " ">> \o todoMarker \o <<" ">> \o String(todo) \o <<"\n">>

\* what addTODO makes of the content it read: the TODO section is added if
\* it is missing, then the new line
addTODOContent(read, todo) ==
  LET content0 == IF Falsy(read) THEN <<>> ELSE read
      content1 == IF ~includes(content0, todosHeading)
                  THEN content0 \o <<"\n">> \o todosHeading \o <<"\n">>
                  ELSE content0
  IN appendEntry(content1, todoEntry(todo))

addTODO(disk, now, todo, dateArg, fault) ==
  LET dateStr == Default(dateArg, todayStr(now))
      filePath == notePath(dateStr)
      read == readFile(disk, filePath)
      w == writeFile(disk, filePath, addTODOContent(read, todo), fault)
  IN [ret |-> [success |-> w.success, date |-> dateStr, todo |-> todo],
      files |-> w.files, dirs |-> w.dirs,
      log |-> readFileLog(disk, filePath) \o w.log]

\* mutant of matchesTodo: a done line matches too
matchesTodoAnyMarker(line, todoText) ==
  (startsWith(line, todoMarker) \/ startsWith(line, doneMarker))
  /\ includes(line, String(todoText))

\* the test completeTODO makes on lines[i], trimmed
matchesTodo(line, todoText) ==
  startsWith(line, todoMarker) /\ includes(line, String(todoText))

\* lines[i] = line.replace(CONFIG.todoMarker, CONFIG.doneMarker), line trimmed
markDone(line) == replace(line, todoMarker, doneMarker)

\* mutant of completeLoop: no break, every matching line is marked
completeLoopNoBreak(lines, i, todoText) ==
  [lines |-> [j \in 1..Len(lines) |->
                IF j >= i /\ startsWith(trim(lines[j]), todoMarker)
                          /\ includes(trim(lines[j]), String(todoText))
                THEN replace(trim(lines[j]), todoMarker, doneMarker)
                ELSE lines[j]],
   found |-> \E j \in i..Len(lines) :
               /\ startsWith(trim(lines[j]), todoMarker)
               /\ includes(trim(lines[j]), String(todoText))]

\* the for loop of completeTODO from position i (1-based) on: the lines it
\* leaves, and whether it found a match
RECURSIVE completeLoop(_, _, _)
completeLoop(lines, i, todoText) ==
  IF i > Len(lines) THEN [lines |-> lines, found |-> FALSE]
  ELSE LET line == trim(lines[i])
       IN IF matchesTodo(line, todoText)
          THEN [lines |-> [lines EXCEPT ![i] = markDone(line)], found |-> TRUE]
          ELSE completeLoop(lines, i + 1, todoText)

completeTODO(disk, now, todoText, dateArg, fault) ==
  LET dateStr == Default(dateArg, todayStr(now))
      filePath == notePath(dateStr)
      content == readFile(disk, filePath)
      read == readFileLog(disk, filePath)
  IN IF Falsy(content)
     THEN ReadOnly(disk, [success |-> FALSE, error |-> "Daily note not found"], read)
     ELSE LET loop == completeLoop(split(content, "\n"), 1, todoText)
          IN IF ~loop.found
             THEN ReadOnly(disk, [success |-> FALSE, error |-> "TODO not found",
                                  todo |-> todoText], read)
             ELSE LET w == writeFile(disk, filePath, join(loop.lines, <<"\n">>), fault)
                  IN [ret |-> [success |-> w.success, todo |-> todoText,
                               completed |-> TRUE],
                      files |-> w.files, dirs |-> w.dirs, log |-> read \o w.log]

-----------------------------------------------------------------------------
(* Context aggregator.                                                     *)

getContext(disk, now) ==
  LET today == getDailyNote(disk, now, todayStr(now))
      yesterday == getDailyNote(disk, now, yesterdayStr(now))
      todos == getTODOs(disk, now, undefined)
      recentNotes == listDailyNotes(disk, <<5>>)
  IN ReadOnly(disk,
              [date |-> todayStr(now),
               todayExists |-> today.ret.exists,
               yesterdayExists |-> yesterday.ret.exists,
               pendingTodos |-> Len(SelectSeq(todos.ret.todos, LAMBDA t : ~t.done)),
               recentNotes |-> recentNotes.ret.notes,
               workspace |-> workspace],
              today.log \o yesterday.log \o todos.log \o recentNotes.log)

-----------------------------------------------------------------------------
(* Protocol handler: one tools/call message, from readStdin's JSON.parse   *)
(* to the line written by send.                                            *)

\* JSON.stringify(value, null, 2): the members whose value is undefined are
\* left out.  The text is represented by the JSON value it denotes.
JSONstringify(value) ==
  [k \in {f \in DOMAIN value :
            ~(f \in {"entry", "todo", "query"} /\ value[f] = undefined)}
     |-> value[k]]

\* an optional member of a message is <<>> when absent, <<value>> when present
absent == <<>>

\* the object send(json) prints for { jsonrpc: '2.0', id, ... }: id is the
\* id member destructured from the message, and JSON.stringify leaves out a
\* member whose value is undefined, so a message without id is answered
\* without id
withId(id, members) ==
  IF id = absent THEN members ELSE [id |-> id[1]] @@ members

noMemoryText == <<"(","N","o"," ","m","e","m","o","r","y"," ",
                  "f","i","l","e"," ","f","o","u","n","d",")">>

\* send(json) of the tools/call case for tool `name`; when the tool function
\* threw, the catch of readStdin sends the transport error instead
response(id, name, ret) ==
  IF "threw" \in DOMAIN ret
  THEN <<[error |-> "Invalid JSON: " \o ret.threw]>>
  ELSE <<withId(id,
            [jsonrpc |-> "2.0",
             result |-> [content |-> <<[type |-> "text",
                                        text |-> IF name = "get_memory"
                                                 THEN (IF Falsy(ret.text) THEN noMemoryText
                                                       ELSE ret.text)
                                                 ELSE JSONstringify(ret)]>>]])>>

\* the file system as a message finds it; unreadable is the set of files
\* fs.readFileSync throws on
diskWhere(unreadable) == [files |-> files, dirs |-> dirs, unreadable |-> unreadable]

disk == diskWhere({})

\* the file system of a message under a fault: a read fault makes
\* fs.readFileSync throw on every file
diskUnder(fault) == diskWhere(IF fault.call = "read" THEN DOMAIN files ELSE {})

\* the processes that can run addTODO on the note directory: this server
\* and another process doing the same
Procs == {"server", "other"}

\* A line of standard input is blank, or holds one whole JSON text (the
\* message it denotes is msg), or the first or the second half of a JSON
\* text printed on two lines, or text that is no JSON.
blankLine == [text |-> "blank"]
garbageLine == [text |-> "garbage"]
jsonLine(msg) == [text |-> "json", msg |-> msg]
openLine(msg) == [text |-> "open", msg |-> msg]
closeLine(msg) == [text |-> "close", msg |-> msg]

\* JSON.parse(buffer): the buffer must hold exactly one JSON text
JSONparse(buf) ==
  IF Len(buf) = 1 /\ buf[1].text = "json"
  THEN [ok |-> TRUE, value |-> buf[1].msg]
  ELSE IF /\ Len(buf) = 2 /\ buf[1].text = "open" /\ buf[2].text = "close"
          /\ buf[1].msg = buf[2].msg
  THEN [ok |-> TRUE, value |-> buf[1].msg]
  ELSE [ok |-> FALSE, message |-> "SyntaxError"]

\* mutant of invalidJSON: the exception is swallowed
invalidJSONSilent(message) == <<>>

\* the catch of readStdin: send({ error: 'Invalid JSON: ' + e.message })
invalidJSON(message) == <<[error |-> "Invalid JSON: " \o message]>>

ToolNames == {"get_memory", "add_memory", "search_memory", "get_daily_note",
              "add_daily_note", "list_daily_notes", "get_todos", "add_todo",
              "complete_todo", "get_context"}

\* params.arguments || {}: a member the client left out reads as undefined
noArguments == [entry |-> undefined, category |-> undefined, query |-> undefined,
                date |-> undefined, todo |-> undefined, limit |-> absent]

argumentsOf(params) ==
  IF params.arguments = absent THEN noArguments
  ELSE params.arguments[1] @@ noArguments

\* the result of the initialize case, the tool descriptions left out
PROTOCOL_VERSION == "2024-11-05"
initializeResult == [protocolVersion |-> PROTOCOL_VERSION,
                     capabilities |-> [tools |-> ToolNames]]

rpcError(id, code, message) ==
  <<withId(id, [jsonrpc |-> "2.0", error |-> [code |-> code, message |-> message]])>>

\* mutant of unknownTool: the code of an unknown method
unknownToolAsMethod(id, toolName) == rpcError(id, -32600, "Unknown method")

\* the default case of the tool switch
unknownTool(id, toolName) == rpcError(id, -32601, "Unknown tool: " \o toolName)

\* mutant of unknownMethod: an unknown method is not answered
unknownMethodSilent(id) == <<>>

\* the default case of the method switch
unknownMethod(id) == rpcError(id, -32600, "Unknown method")

\* the tool function the inner switch of handleMessage calls
callTool(d, now, toolName, args, fault) ==
  CASE toolName = "get_memory" ->
         ReadOnly(d, [text |-> getMemory(d)], readFileLog(d, memoryFile))
    [] toolName = "add_memory" -> addMemory(d, now, args.entry, args.category, fault)
    [] toolName = "search_memory" -> searchMemory(d, args.query)
    [] toolName = "get_daily_note" -> getDailyNote(d, now, args.date)
    [] toolName = "add_daily_note" -> addDailyNote(d, now, args.entry, args.date, fault)
    [] toolName = "list_daily_notes" -> listDailyNotes(d, args.limit)
    [] toolName = "get_todos" -> getTODOs(d, now, args.date)
    [] toolName = "add_todo" -> addTODO(d, now, args.todo, args.date, fault)
    [] toolName = "complete_todo" -> completeTODO(d, now, args.todo, args.date, fault)
    [] toolName = "get_context" -> getContext(d, now)
    [] OTHER -> ReadOnly(d, [none |-> TRUE], <<>>)

\* handleMessage(msg) called from the try of readStdin: what is written to
\* stdout (by send, or by the catch when handleMessage throws), what the tool
\* function returned, and the file system it leaves
handleMessage(d, now, msg, fault) ==
  CASE msg.method = "initialize" ->
         ReadOnly(d, [none |-> TRUE], <<>>)
         @@ [sent |-> <<withId(msg.id, [jsonrpc |-> "2.0", result |-> initializeResult])>>]
    [] msg.method = "notifications/initialized" ->
         ReadOnly(d, [none |-> TRUE], <<>>) @@ [sent |-> <<>>]
    [] msg.method = "tools/call" ->
         IF msg.params = absent
         THEN \* params.name of undefined
              ReadOnly(d, [threw |-> "TypeError"], <<>>)
              @@ [sent |-> invalidJSON("TypeError")]
         ELSE LET toolName == msg.params[1].name
                  eff == callTool(d, now, toolName, argumentsOf(msg.params[1]), fault)
              IN eff @@ [sent |-> IF toolName \in ToolNames
                                  THEN response(msg.id, toolName, eff.ret)
                                  ELSE unknownTool(msg.id, toolName)]
    [] OTHER ->
         ReadOnly(d, [none |-> TRUE], <<>>) @@ [sent |-> unknownMethod(msg.id)]

\* A frame whose one line is {id, method: 'tools/call', params: {name,
\* arguments: args}}, read into an empty buffer and ended by a blank line:
\* handleMessage with eff the effect of the tool function the switch selects
handleToolCall(name, args, eff) ==
  /\ steps' = steps + 1
  /\ req' = [id |-> <<steps + 1>>, method |-> "tools/call", name |-> name, args |-> args]
  /\ result' = eff.ret
  /\ sent' = response(<<steps + 1>>, name, eff.ret)
  /\ files' = eff.files
  /\ dirs' = eff.dirs
  /\ io' = eff.log
  /\ before' = files
  /\ buffer = <<>> /\ buffer' = <<>>
  /\ event' = blankLine
  /\ nsent' = nsent + Len(sent')
  /\ UNCHANGED <<clock, eof, rvars>>

-----------------------------------------------------------------------------
(* What the client sends and what the disk holds at start.                 *)

\* readStdin before the first line, and no addTODO under way
Idle ==
  /\ buffer = <<>>
  /\ eof = FALSE
  /\ event = [text |-> "none"]
  /\ nsent = 0
  /\ pc = [p \in Procs |-> "idle"]
  /\ local = [p \in Procs |-> <<>>]
  /\ order = <<>>

Entries == {<<"a", "\n", "b">>}
NoteEntries == {<<"A", "b">>}
Categories == {undefined, <<"W">>}
Queries == {<<>>, <<"A">>, <<" ">>, <<"z">>, undefined}
Todos == {<<"a">>}
TodoTexts == {<<"a">>, <<"b">>}
Limits == {<<>>, <<-1>>, <<0>>, <<1>>, <<2>>}

date1 == <<"2","0","2","4","-","0","1","-","0","1">>
traversal == <<".", ".", "/", "M", "E", "M", "O", "R", "Y">>
Dates == {undefined, date1, traversal}

\* a memory document with more matching lines than searchMemory returns:
\* the lines are  a / " Ab " / "  " in turn, the blank ones not matching
bigLine(k) == IF k % 3 = 1 THEN <<"a">>
              ELSE IF k % 3 = 2 THEN <<" ", "A", "b", " ">>
              ELSE <<" ", " ">>

bigMemory == join([k \in 1..(3 * ((ResultLimit \div 2) + ExtraLines)) |-> bigLine(k)],
                  <<"\n">>)

smallMemory == <<"\n", "#", "#", " ", "W", "\n", "-", " ", "a", " ", "\n", " ", "\n", "z", "A">>

\* a daily note as an editor leaves it: two pending items that contain "a",
\* one of them indented, a done item, and an item as addTODO writes it
todoNote == <<"[", " ", "]", " ", "a", "\n",
              " ", "[", " ", "]", " ", "a", "b", " ", "\n",
              "[", "x", "]", " ", "b", "\n",
              "-", " ", "[", " ", "]", " ", "c">>

InitMemory == {null, smallMemory, bigMemory}
InitNote1 == {null, <<>>, todoNote}
InitNote2 == {null, todoNote}

\* a file of the note directory that is no daily note: 2024-01-09.mdx
otherFile == <<"2","0","2","4","-","0","1","-","0","9",".","m","d","x">>
InitOther == {null, <<"x">>}

\* the home directory, which exists before the workspace does
home == SubSeq(workspace, 1, 1)

\* the file systems a behaviour starts from: memory document, note of
\* 2024-01-01, note of 2024-01-02 (today), other file of the note directory,
\* and the innermost directory that exists whatever the files
InitDisks ==
  { <<null, null, null, null, home>>,
    <<null, null, null, null, workspace>>,
    <<smallMemory, todoNote, null, null, workspace>>,
    <<null, <<>>, todoNote, null, workspace>>,
    <<null, todoNote, todoNote, <<"x">>, workspace>>,
    <<bigMemory, null, null, null, workspace>> }

file(path, content) == IF content = null THEN <<>> ELSE <<[path |-> path, content |-> content]>>

diskOf(entries) ==
  [p \in {entries[i].path : i \in 1..Len(entries)} |->
     (CHOOSE e \in {entries[i] : i \in 1..Len(entries)} : e.path = p).content]

Init ==
  \E m \in InitMemory, n1 \in InitNote1, n2 \in InitNote2, o \in InitOther,
     base \in {home, workspace} :
    /\ <<m, n1, n2, o, base>> \in InitDisks
    /\ LET entries == file(memoryFile, m)
                      \o file(notePath(date1), n1)
                      \o file(notePath(todayStr(1)), n2)
                      \o file(Append(memoryDir, otherFile), o)
       IN /\ files = diskOf(entries)
          /\ dirs = UNION {Ancestors(dirname(entries[i].path)) : i \in 1..Len(entries)}
                    \cup Ancestors(base)
          /\ clock = 1
          /\ steps = 0
          /\ req = [id |-> absent, method |-> "none", name |-> "none", args |-> <<>>]
          /\ result = [none |-> TRUE]
          /\ sent = <<>>
          /\ io = <<>>
          /\ before = files
          /\ Idle

-----------------------------------------------------------------------------
(* One action for each tool of the tools/call switch.                      *)

CallGetMemory ==
  /\ steps < MaxSteps
  /\ \E fault \in ReadFaults :
       handleToolCall("get_memory", <<>>,
                      ReadOnly(disk, [text |-> getMemory(diskUnder(fault))],
                               readFileLog(diskUnder(fault), memoryFile)))

CallAddMemory ==
  /\ steps < MaxSteps
  /\ \E entry \in Entries, category \in Categories, fault \in Faults :
       handleToolCall("add_memory", [entry |-> entry, category |-> category],
                      addMemory(diskUnder(fault), clock, entry, category, fault))

CallSearchMemory ==
  /\ steps < MaxSteps
  /\ \E query \in Queries, fault \in ReadFaults :
       handleToolCall("search_memory", [query |-> query],
                      searchMemory(diskUnder(fault), query))

CallGetDailyNote ==
  /\ steps < MaxSteps
  /\ \E date \in Dates, fault \in ReadFaults :
       handleToolCall("get_daily_note", [date |-> date],
                      getDailyNote(diskUnder(fault), clock, date))

CallAddDailyNote ==
  /\ steps < MaxSteps
  /\ \E entry \in NoteEntries, date \in Dates, fault \in Faults :
       handleToolCall("add_daily_note", [entry |-> entry, date |-> date],
                      addDailyNote(diskUnder(fault), clock, entry, date, fault))

CallListDailyNotes ==
  /\ steps < MaxSteps
  /\ \E limit \in Limits :
       handleToolCall("list_daily_notes", [limit |-> limit], listDailyNotes(disk, limit))

CallGetTodos ==
  /\ steps < MaxSteps
  /\ \E date \in Dates, fault \in ReadFaults :
       handleToolCall("get_todos", [date |-> date], getTODOs(diskUnder(fault), clock, date))

CallAddTodo ==
  /\ steps < MaxSteps
  /\ \E todo \in Todos, date \in Dates, fault \in Faults :
       handleToolCall("add_todo", [todo |-> todo, date |-> date],
                      addTODO(diskUnder(fault), clock, todo, date, fault))

CallCompleteTodo ==
  /\ steps < MaxSteps
  /\ \E todo \in TodoTexts, date \in Dates, fault \in Faults :
       handleToolCall("complete_todo", [todo |-> todo, date |-> date],
                      completeTODO(diskUnder(fault), clock, todo, date, fault))

CallGetContext ==
  /\ steps < MaxSteps
  /\ \E fault \in ReadFaults :
       handleToolCall("get_context", <<>>, getContext(diskUnder(fault), clock))

\* a day passes between two messages
Tick ==
  /\ steps < MaxSteps
  /\ steps' = steps + 1
  /\ clock' = clock + 1
  /\ UNCHANGED <<files, dirs, req, result, sent, io, before, tvars, rvars>>

Next ==
  \/ CallGetMemory
  \/ CallAddMemory
  \/ CallSearchMemory
  \/ CallGetDailyNote
  \/ CallAddDailyNote
  \/ CallListDailyNotes
  \/ CallGetTodos
  \/ CallAddTodo
  \/ CallCompleteTodo
  \/ CallGetContext
  \/ Tick

Spec == Init /\ [][Next]_vars

-----------------------------------------------------------------------------
(* The transport: readStdin, one action for each way a line event goes.    *)

toolCall(id, name, arguments) ==
  [id |-> id, method |-> "tools/call",
   params |-> <<[name |-> name, arguments |-> arguments]>>]

\* the well-formed JSON messages a client sends as its line number n: the
\* id member is n, or is left out
Messages(n) ==
  { [id |-> <<n>>, method |-> "initialize", params |-> absent],
    [id |-> absent, method |-> "notifications/initialized", params |-> absent],
    [id |-> <<n>>, method |-> "ping", params |-> absent],
    [id |-> absent, method |-> "ping", params |-> absent],
    [id |-> <<n>>, method |-> "tools/call", params |-> absent],
    toolCall(<<n>>, "nope", absent),
    toolCall(<<n>>, "get_memory", absent),
    toolCall(absent, "get_memory", absent),
    toolCall(<<n>>, "search_memory", absent),
    toolCall(<<n>>, "search_memory", <<[query |-> <<"A">>]>>),
    toolCall(<<n>>, "add_memory", absent),
    toolCall(<<n>>, "add_daily_note", <<[entry |-> <<"A", "b">>, date |-> date1]>>) }

\* the lines that are not blank
TextLines(n) ==
  {jsonLine(m) : m \in Messages(n)}
  \cup {garbageLine, openLine(toolCall(<<n>>, "get_memory", absent)),
        closeLine(toolCall(<<n - 1>>, "get_memory", absent))}

InitT ==
  \E m \in {null, smallMemory} :
    /\ files = diskOf(file(memoryFile, m))
    /\ dirs = Ancestors(workspace)
    /\ clock = 1
    /\ steps = 0
    /\ req = [id |-> absent, method |-> "none", name |-> "none", args |-> <<>>]
    /\ result = [none |-> TRUE]
    /\ sent = <<>>
    /\ io = <<>>
    /\ before = files
    /\ Idle

\* the try and catch of readStdin on the buffered text: the message parsed
\* (none when JSON.parse throws) and what handling it does
parseAndHandle(d, now, buf) ==
  LET parsed == JSONparse(buf)
  IN IF parsed.ok
     THEN handleMessage(d, now, parsed.value, noFault)
          @@ [req |-> [id |-> parsed.value.id, method |-> parsed.value.method,
                       name |-> IF parsed.value.params = absent THEN "none"
                                ELSE parsed.value.params[1].name,
                       args |-> IF parsed.value.params = absent THEN <<>>
                                ELSE argumentsOf(parsed.value.params[1])]]
     ELSE ReadOnly(d, [threw |-> parsed.message], <<>>)
          @@ [req |-> [id |-> absent, method |-> "none", name |-> "none", args |-> <<>>],
              sent |-> invalidJSON(parsed.message)]

\* rl.on('line') with a line that is not blank: buffer += line + '\n'
LineText ==
  /\ ~eof /\ steps < MaxLines
  /\ \E l \in TextLines(steps + 1) :
       /\ buffer' = Append(buffer, l)
       /\ event' = l
  /\ steps' = steps + 1
  /\ UNCHANGED <<files, dirs, clock, req, result, sent, io, before, eof, nsent, rvars>>

\* rl.on('line') with a blank line and nothing buffered
LineBlankIdle ==
  /\ ~eof /\ steps < MaxLines
  /\ buffer = <<>>
  /\ event' = blankLine
  /\ steps' = steps + 1
  /\ UNCHANGED <<files, dirs, clock, req, result, sent, io, before,
                 buffer, eof, nsent, rvars>>

\* rl.on('line') with a blank line that ends a frame: parse the buffer,
\* handle the message or report the parse error, empty the buffer
LineBlankFrame ==
  /\ ~eof /\ steps < MaxLines
  /\ buffer # <<>>
  /\ \E o \in {parseAndHandle(disk, clock, buffer)} :
       /\ req' = o.req
       /\ result' = o.ret
       /\ sent' = o.sent
       /\ files' = o.files
       /\ dirs' = o.dirs
       /\ io' = o.log
  /\ before' = files
  /\ buffer' = <<>>
  /\ event' = blankLine
  /\ nsent' = nsent + Len(sent')
  /\ steps' = steps + 1
  /\ UNCHANGED <<clock, eof, rvars>>

\* standard input ends: no line event follows
EndOfInput ==
  /\ ~eof
  /\ eof' = TRUE
  /\ UNCHANGED <<files, dirs, clock, steps, req, result, sent, io, before,
                 buffer, event, nsent, rvars>>

NextT ==
  \/ LineText
  \/ LineBlankIdle
  \/ LineBlankFrame
  \/ EndOfInput

SpecT == InitT /\ [][NextT]_vars

-----------------------------------------------------------------------------
(* Two processes, this server and another one, each running one addTODO on *)
(* the note of the same date.  addTODO makes its fs calls one after the    *)
(* other: existsSync and readFileSync in readFile, then existsSync,        *)
(* mkdirSync and writeFileSync in writeFile, and writeFileSync itself      *)
(* opens the file, which empties it, before it writes.  The calls of the   *)
(* other process can fall between any two of them.  pc[p] is the call      *)
(* process p makes next.                                                   *)

\* the item each process adds
RaceTodos(p) == IF p = "server" THEN {<<"s">>, <<"s", "1">>}
                ELSE {<<"o">>, <<"o", "1">>}

\* a daily note that has its TODO section
sectionNote == <<"\n">> \o todosHeading \o <<"\n", "-", " ", "[", " ", "]", " ", "c", "\n">>

InitR ==
  \E n \in {null, <<>>, todoNote, sectionNote} :
    /\ files = diskOf(file(notePath(date1), n))
    /\ dirs = Ancestors(workspace) \cup (IF n = null THEN {} ELSE Ancestors(memoryDir))
    /\ clock = 1
    /\ steps = 0
    /\ req = [id |-> absent, method |-> "none", name |-> "none", args |-> <<>>]
    /\ result = [none |-> TRUE]
    /\ sent = <<>>
    /\ io = <<>>
    /\ before = files
    /\ Idle

\* process p has made this fs call on this path, and it returned
called(p, call, path) ==
  /\ local' = [local EXCEPT
                 ![p].log = Append(@, [call |-> call, path |-> path, threw |-> FALSE])]
  /\ order' = Append(order, [proc |-> p, call |-> call])

\* readFile(filePath) of addTODO, its fs.existsSync(filePath): when the
\* file is not there readFile returns null
readFileExistsSync(p, todo, dateArg) ==
  LET filePath == notePath(Default(dateArg, todayStr(clock)))
  IN /\ pc[p] = "idle"
     /\ local' = [local EXCEPT ![p] =
                    [todo |-> todo, date |-> dateArg, filePath |-> filePath,
                     content |-> null, newContent |-> <<>>,
                     log |-> <<[call |-> "existsSync", path |-> filePath,
                                threw |-> FALSE]>>]]
     /\ order' = Append(order, [proc |-> p, call |-> "existsSync"])
     /\ pc' = [pc EXCEPT ![p] = IF existsSync(disk, filePath) THEN "readFileSync"
                                ELSE "existsSyncDir"]
     /\ UNCHANGED <<files, dirs>>

\* readFile(filePath) of addTODO, its fs.readFileSync(filePath, 'utf8'): the
\* content the file has now
readFileReadFileSync(p) ==
  /\ pc[p] = "readFileSync"
  /\ local' = [local EXCEPT
                 ![p].content = readFile(disk, local[p].filePath),
                 ![p].log = Append(@, [call |-> "readFileSync",
                                       path |-> local[p].filePath,
                                       threw |-> FALSE])]
  /\ order' = Append(order, [proc |-> p, call |-> "readFileSync"])
  /\ pc' = [pc EXCEPT ![p] = "existsSyncDir"]
  /\ UNCHANGED <<files, dirs>>

\* mutant of contentRead: the file is read again when the new content is made
contentReadAgain(d, loc) == readFile(d, loc.filePath)

\* the content addTODO extends: the one readFile returned
contentRead(d, loc) == loc.content

\* addTODO from the includes test to writeFile's fs.existsSync(dir): the
\* content to write is made from the content read
writeFileExistsSync(p) ==
  /\ pc[p] = "existsSyncDir"
  /\ local' = [local EXCEPT
                 ![p].newContent = addTODOContent(contentRead(disk, local[p]),
                                                  local[p].todo),
                 ![p].log = Append(@, [call |-> "existsSync",
                                       path |-> dirname(local[p].filePath),
                                       threw |-> FALSE])]
  /\ order' = Append(order, [proc |-> p, call |-> "existsSyncDir"])
  /\ pc' = [pc EXCEPT ![p] = IF existsSync(disk, dirname(local[p].filePath))
                             THEN "open" ELSE "mkdirSync"]
  /\ UNCHANGED <<files, dirs>>

\* writeFile's fs.mkdirSync(dir, { recursive: true }): no error when the
\* other process made the directory in the meantime
writeFileMkdirSync(p) ==
  /\ pc[p] = "mkdirSync"
  /\ dirs' = dirs \cup Ancestors(dirname(local[p].filePath))
  /\ called(p, "mkdirSync", dirname(local[p].filePath))
  /\ pc' = [pc EXCEPT ![p] = "open"]
  /\ UNCHANGED files

\* fs.writeFileSync(filePath, content, 'utf8'), its open with flag 'w': the
\* file is created if it is missing and emptied if it is there
writeFileSyncOpen(p) ==
  /\ pc[p] = "open"
  /\ files' = (local[p].filePath :> <<>>) @@ files
  /\ called(p, "writeFileSync", local[p].filePath)
  /\ pc' = [pc EXCEPT ![p] = "write"]
  /\ UNCHANGED dirs

\* what a write of content at offset 0 leaves of a file that holds existing
overwrite(existing, content) ==
  content \o SubSeq(existing, Len(content) + 1, Len(existing))

\* fs.writeFileSync, its write: the content goes to the start of the file,
\* over whatever the file holds by now
writeFileSyncWrite(p) ==
  /\ pc[p] = "write"
  /\ files' = (local[p].filePath :>
                 overwrite(files[local[p].filePath], local[p].newContent)) @@ files
  /\ order' = Append(order, [proc |-> p, call |-> "write"])
  /\ pc' = [pc EXCEPT ![p] = "done"]
  /\ UNCHANGED <<dirs, local>>

\* handleMessage is on a tools/call add_todo frame when the server starts
\* addTODO, and sends the response when addTODO is over
framed(p, first, last) ==
  /\ IF p = "server" /\ first
     THEN /\ req' = [id |-> <<1>>, method |-> "tools/call", name |-> "add_todo",
                     args |-> [todo |-> local'[p].todo, date |-> local'[p].date]]
          /\ before' = files
     ELSE UNCHANGED <<req, before>>
  /\ IF p = "server" /\ last
     THEN /\ result' = [success |-> TRUE, date |-> req.args.date, todo |-> req.args.todo]
          /\ sent' = response(req.id, "add_todo", result')
          /\ io' = local[p].log
          /\ nsent' = nsent + 1
          /\ steps' = steps + 1
     ELSE UNCHANGED <<result, sent, io, nsent, steps>>
  /\ UNCHANGED <<clock, buffer, eof, event>>

AddTodoExistsSync ==
  \E p \in Procs : \E todo \in RaceTodos(p) :
    readFileExistsSync(p, todo, date1) /\ framed(p, TRUE, FALSE)

AddTodoReadFileSync ==
  \E p \in Procs : readFileReadFileSync(p) /\ framed(p, FALSE, FALSE)

AddTodoExistsSyncDir ==
  \E p \in Procs : writeFileExistsSync(p) /\ framed(p, FALSE, FALSE)

AddTodoMkdirSync ==
  \E p \in Procs : writeFileMkdirSync(p) /\ framed(p, FALSE, FALSE)

AddTodoOpen ==
  \E p \in Procs : writeFileSyncOpen(p) /\ framed(p, FALSE, FALSE)

AddTodoWrite ==
  \E p \in Procs : writeFileSyncWrite(p) /\ framed(p, FALSE, TRUE)

NextR ==
  \/ AddTodoExistsSync
  \/ AddTodoReadFileSync
  \/ AddTodoExistsSyncDir
  \/ AddTodoMkdirSync
  \/ AddTodoOpen
  \/ AddTodoWrite

SpecR == InitR /\ [][NextR]_vars

-----------------------------------------------------------------------------
(* Vocabulary of the properties.                                           *)

\* the last event handled was a tools/call of this tool
Called(name) == req.name = name

\* the file the last call read first (every tool but list_daily_notes
\* starts by reading the document it is about)
Target == io[1].path

ContentOf(fs, p) == IF p \in DOMAIN fs THEN fs[p] ELSE null

HasError(r, message) == "error" \in DOMAIN r /\ r.error = message

Succeeded == "success" \in DOMAIN result /\ result.success

\* a pending TODO line that contains text, as the TODO engine reads lines
PendingWith(line, text) ==
  startsWith(trim(line), todoMarker) /\ includes(trim(line), text)

PendingLines(content, text) ==
  LET lines == split(content, "\n")
  IN {j \in 1..Len(lines) : PendingWith(lines[j], text)}

Min(S) == CHOOSE i \in S : \A j \in S : i <= j

\* the step handles a message (it is not the passing of a day)
Handled == req'.id # req.id

WroteNothing == \A k \in 1..Len(io) : io[k].call \notin {"writeFileSync", "mkdirSync"}

\* no fs call of the last message threw: the file system behaved as the
\* reliable store the tools are specified over
Reliable == \A k \in 1..Len(io) : ~io[k].threw

-----------------------------------------------------------------------------
(* C1: after add_todo(todo, date) succeeds, get_todos(date) lists an item  *)
(* with done = false and text equal to the submitted todo.                 *)
C1_AddedTodoIsListed ==
  (Called("add_todo") /\ Succeeded /\ Reliable) =>
    LET todos == getTODOs(disk, clock, result.date).ret.todos
    IN \E k \in 1..Len(todos) : ~todos[k].done /\ todos[k].text = req.args.todo

(* C2: add_todo(todo, date) followed by complete_todo(todo, date) makes    *)
(* complete_todo return success and completed, and get_todos(date) then    *)
(* shows the item with done = true.                                        *)
C2_AddThenComplete ==
  [][(/\ Handled
      /\ Called("add_todo") /\ Succeeded /\ Reliable
      /\ req'.name = "complete_todo" /\ Reliable'
      /\ req'.args.todo = req.args.todo /\ Target' = Target)
     => (/\ result'.success
         /\ "completed" \in DOMAIN result' /\ result'.completed
         /\ LET todos == getTODOs(disk', clock', result.date).ret.todos
            IN \E k \in 1..Len(todos) : todos[k].done /\ todos[k].text = req.args.todo)]_vars

(* C3: a complete_todo(text, date) that succeeds on a note with a pending  *)
(* line containing text turns the first such line into a done line and     *)
(* leaves every other line, and every other document, as it was.           *)
C3_CompleteFlipsFirstMatchOnly ==
  (Called("complete_todo") /\ Succeeded) =>
    LET old == split(before[Target], "\n")
        new == split(files[Target], "\n")
        pending == PendingLines(before[Target], String(req.args.todo))
        first == Min(pending)
    IN /\ pending # {}
       /\ Len(new) = Len(old)
       /\ \A j \in 1..Len(old) : j # first => new[j] = old[j]
       /\ startsWith(trim(new[first]), doneMarker)
       /\ trim(substring(trim(new[first]), 4)) = trim(substring(trim(old[first]), 4))
       /\ DOMAIN files = DOMAIN before
       /\ \A p \in DOMAIN files : p # Target => files[p] = before[p]

C3_Witness ==
  /\ Called("complete_todo") /\ Succeeded
  /\ Cardinality(PendingLines(before[Target], String(req.args.todo))) >= 2
  /\ PendingLines(files[Target], String(req.args.todo)) # {}

(* C4 as claimed: after a complete_todo(text, date) that succeeded, the    *)
(* same call again fails with "TODO not found", whatever the note holds.   *)
C4_SecondCompleteFails ==
  [][(/\ Handled
      /\ Called("complete_todo") /\ Succeeded
      /\ req'.name = "complete_todo" /\ Reliable'
      /\ req'.args.todo = req.args.todo /\ Target' = Target)
     => (~result'.success /\ HasError(result', "TODO not found"))]_vars

(* C4 as amended: after a complete_todo(text, date) that succeeded, the    *)
(* same call again fails with "TODO not found" exactly when no pending     *)
(* line containing text is left in the note; when one is left, the call    *)
(* matches it and reports completed.                                       *)
C4_SecondCompleteFailsIffNoneLeft ==
  [][(/\ Handled
      /\ Called("complete_todo") /\ Succeeded
      /\ req'.name = "complete_todo" /\ Reliable'
      /\ req'.args.todo = req.args.todo /\ Target' = Target)
     => LET left == PendingLines(files[Target], String(req.args.todo))
        IN /\ (left = {}) <=> (~result'.success /\ HasError(result', "TODO not found"))
           /\ (left # {}) <=> ("completed" \in DOMAIN result' /\ result'.completed)]_vars

\* the second line of the note was completed by an earlier complete_todo("b"),
\* the first line is still pending, and complete_todo("b") now finds nothing
C4_Witness ==
  /\ Called("complete_todo") /\ req.args.todo = <<"b">>
  /\ HasError(result, "TODO not found")
  /\ LET lines == split(files[Target], "\n")
     IN /\ Len(lines) >= 2
        /\ startsWith(trim(lines[1]), todoMarker)
        /\ trim(lines[2]) = <<"[", "x", "]", " ", "a", "b">>

(* C5: a failing complete_todo leaves storage unchanged; with no note for  *)
(* the date it answers "Daily note not found" and writes nothing, and on a *)
(* note with no pending line containing the text it answers "TODO not      *)
(* found" and writes nothing.                                              *)
C5_FailedCompleteLeavesStorage ==
  (Called("complete_todo") /\ ~result.success /\ Reliable) =>
    /\ files = before
    /\ Target \notin DOMAIN before
         => (HasError(result, "Daily note not found") /\ WroteNothing)
    /\ (Target \in DOMAIN before
        /\ PendingLines(before[Target], String(req.args.todo)) = {})
         => (HasError(result, "TODO not found") /\ WroteNothing)

(* C6: get_daily_note on a date with no document answers exists = false   *)
(* and content = null; after an add_daily_note(entry, date) that wrote,    *)
(* get_daily_note(date) answers exists = true with a content that holds    *)
(* the line `- **<timestamp>**: <entry>` and starts with the content the   *)
(* note had before.                                                        *)
C6_NoteAbsentThenAppended ==
  /\ (Called("get_daily_note") /\ Target \notin DOMAIN files)
       => (~result.exists /\ result.content = null)
  /\ (Called("add_daily_note") /\ Succeeded /\ Reliable)
       => LET note == getDailyNote(disk, clock, result.date).ret
              old == IF Target \in DOMAIN before THEN before[Target] ELSE <<>>
              line == <<"-", " ", "*", "*">> \o result.timestamp
                      \o <<"*", "*", ":", " ">> \o req.args.entry
          IN /\ note.exists
             /\ startsWith(note.content, old)
             /\ includes(SubSeq(note.content, Len(old) + 1, Len(note.content)), line)

C6_Witness ==
  /\ Called("add_daily_note") /\ Succeeded /\ Reliable
  /\ Target \in DOMAIN before /\ Len(before[Target]) > 0
  /\ Target # memoryFile

(* C7: after add_memory(entry, category) succeeds, get_memory returns a    *)
(* text that contains the heading line `## <category>` followed by the     *)
(* line `- **<timestamp>**: <entry>`, with the timestamp of the            *)
(* acknowledgment.                                                         *)
C7_AddedMemoryIsRead ==
  (Called("add_memory") /\ Succeeded) =>
    LET memory == getMemory(disk)
        text == IF Falsy(memory) THEN noMemoryText ELSE memory
    IN includes(text, <<"\n", "#", "#", " ">> \o result.category
                      \o <<"\n", "-", " ", "*", "*">> \o result.timestamp
                      \o <<"*", "*", ":", " ">> \o req.args.entry)

C7_Witness ==
  /\ Called("add_memory") /\ Succeeded
  /\ req.args.category = <<"W">>
  /\ memoryFile \in DOMAIN before /\ Len(before[memoryFile]) > 0

\* a < b in lexicographic order
LexLess(a, b) ==
  \E i \in 1..Len(b) :
    /\ \A j \in 1..(i - 1) : j <= Len(a) /\ a[j] = b[j]
    /\ (i > Len(a) \/ Rank(a[i]) < Rank(b[i]))

(* C8 as claimed: for every limit a client passes to list_daily_notes,     *)
(* zero and negative ones included, the notes returned are in strictly     *)
(* descending lexicographic order and are at most limit many.              *)
C8_ListDescendingWithinLimit ==
  (Called("list_daily_notes") /\ req.args.limit # <<>>) =>
    /\ \A k \in 1..(Len(result.notes) - 1) : LexLess(result.notes[k + 1], result.notes[k])
    /\ Len(result.notes) <= req.args.limit[1]

\* the daily notes of the note directory, as date keys
NoteKeys(fs) ==
  {SubSeq(p[Len(p)], 1, 10) : p \in {q \in DOMAIN fs : /\ Len(q) > 0
                                                       /\ dirname(q) = memoryDir
                                                       /\ dailyNotePattern(q[Len(q)])}}

(* C8 as amended: for every limit passed, the notes returned are date keys *)
(* of daily notes of the directory in strictly descending lexicographic    *)
(* order; with a limit of zero or more they are the newest min(limit, n)   *)
(* of the n daily notes, so at most limit many; with a negative limit -k   *)
(* they are all but the k oldest, max(n - k, 0) many, which is more than   *)
(* the limit.                                                              *)
C8_ListDescendingAndCut ==
  (Called("list_daily_notes") /\ req.args.limit # <<>>) =>
    LET limit == req.args.limit[1]
        keys == NoteKeys(files)
        n == Cardinality(keys)
        notes == result.notes
    IN /\ \A k \in 1..(Len(notes) - 1) : LexLess(notes[k + 1], notes[k])
       /\ \A k \in 1..Len(notes) :
            /\ notes[k] \in keys
            /\ \A other \in keys : LexLess(notes[k], other)
                 => \E j \in 1..(k - 1) : notes[j] = other
       /\ limit >= 0 => Len(notes) = (IF limit < n THEN limit ELSE n)
       /\ limit < 0 => Len(notes) = (IF n + limit > 0 THEN n + limit ELSE 0)
       /\ result.count = Len(notes)

\* two daily notes and a file that is none; limit 1 returns the newer note
C8_Witness ==
  /\ Called("list_daily_notes") /\ req.args.limit = <<1>>
  /\ Cardinality(NoteKeys(files)) = 2
  /\ Append(memoryDir, otherFile) \in DOMAIN files
  /\ result.notes = <<todayStr(1)>>

(* C9: search_memory with an empty query makes no storage access and       *)
(* returns {results: [], message: "No query provided"}.                    *)
C9_EmptyQueryTouchesNothing ==
  (Called("search_memory") /\ req.args.query = <<>>) =>
    /\ io = <<>>
    /\ result = [results |-> <<>>, message |-> "No query provided"]

(* C10: for a non-empty query, search_memory returns count = n and the     *)
(* first min(20, n) of the n matches, the matches being the lines that     *)
(* contain the query whatever the case and are not blank once trimmed,     *)
(* trimmed, in document order.                                             *)
C10_SearchCountsAllReturnsFirst20 ==
  (Called("search_memory") /\ req.args.query \notin {<<>>, undefined} /\ Reliable) =>
    LET memory == ContentOf(files, memoryFile)
        lines == split(IF memory = null THEN <<>> ELSE memory, "\n")
        q == toLowerCase(req.args.query)
        M == {i \in 1..Len(lines) :
                includes(toLowerCase(lines[i]), q) /\ trim(lines[i]) # <<>>}
        n == Cardinality(M)
        nth(k) == CHOOSE i \in M : Cardinality({j \in M : j < i}) = k - 1
    IN /\ result.count = n
       /\ Len(result.results) = (IF n < 20 THEN n ELSE 20)
       /\ \A k \in 1..Len(result.results) : result.results[k] = trim(lines[nth(k)])

C10_Witness ==
  /\ Called("search_memory") /\ req.args.query = <<"A">>
  /\ result.count > ResultLimit
  /\ Len(result.results) = ResultLimit
  /\ result.results[2] = <<"A", "b">>

-----------------------------------------------------------------------------
(* Vocabulary of the transport properties.                                 *)

\* the last frame held a message that was parsed and handed to handleMessage
Dispatched == event = blankLine /\ req.method # "none"

\* this message of stdout carries the id of the message last handled, and
\* no id when that message has none
CarriesId(m) ==
  IF req.id = absent THEN "id" \notin DOMAIN m
  ELSE "id" \in DOMAIN m /\ m.id = req.id[1]

\* stdout got exactly one JSON-RPC error with this code and the id of the
\* message last handled
SentError(code) ==
  /\ Len(sent) = 1
  /\ DOMAIN sent[1] \ {"id"} = {"jsonrpc", "error"}
  /\ sent[1].jsonrpc = "2.0"
  /\ CarriesId(sent[1])
  /\ sent[1].error.code = code

TouchedNothing == io = <<>> /\ files = before

(* C11: a tools/call whose name is none of the ten tools is answered with  *)
(* error -32601 and the request's id; a method other than initialize,      *)
(* notifications/initialized and tools/call with error -32600 and the      *)
(* request's id; notifications/initialized with nothing; and none of the   *)
(* three makes any fs call or changes any file.                            *)
C11_MethodDispatch ==
  Dispatched =>
    /\ (req.method = "tools/call" /\ req.name \notin ToolNames \cup {"none"})
         => (SentError(-32601) /\ TouchedNothing)
    /\ req.method \notin {"initialize", "notifications/initialized", "tools/call"}
         => (SentError(-32600) /\ TouchedNothing)
    /\ req.method = "notifications/initialized"
         => (sent = <<>> /\ TouchedNothing)

\* an unknown tool has been called on a disk that holds a memory document
C11_Witness ==
  /\ Dispatched
  /\ req.method = "tools/call" /\ req.name = "nope"
  /\ SentError(-32601)
  /\ memoryFile \in DOMAIN files

\* the step reads the blank line that ends a frame
FrameStep == steps' # steps /\ event'.text = "blank" /\ buffer # <<>>

\* the frame in the buffer holds the notifications/initialized message
NotificationFramed ==
  JSONparse(buffer).ok /\ JSONparse(buffer).value.method = "notifications/initialized"

(* C12: the step that ends a frame other than notifications/initialized    *)
(* writes exactly one line to stdout, which carries the id of the message  *)
(* of that frame if it carries an id at all, and leaves the buffer empty   *)
(* for the next frame; no other step writes to stdout.  So the responses   *)
(* come one per frame, in the order of the frames.                         *)
C12_OneResponsePerFrame ==
  [][ /\ (FrameStep /\ ~NotificationFramed) =>
           /\ nsent' = nsent + 1
           /\ Len(sent') = 1
           /\ "id" \in DOMAIN sent'[1] =>
                (JSONparse(buffer).ok /\ <<sent'[1].id>> = JSONparse(buffer).value.id)
           /\ buffer' = <<>>
      /\ (FrameStep /\ NotificationFramed) => (nsent' = nsent /\ sent' = <<>>)
      /\ ~FrameStep => (nsent' = nsent /\ sent' = sent) ]_vars

\* two frames have been answered, the second (the request of line 3) last
C12_Witness ==
  /\ nsent = 2
  /\ Dispatched
  /\ Len(sent) = 1 /\ "id" \in DOMAIN sent[1] /\ sent[1].id = 3

(* C13: every well-formed tools/call message, whatever its tool name and   *)
(* whichever of params, arguments and required arguments it leaves out, is *)
(* answered by one JSON-RPC shaped message: jsonrpc "2.0", the id of the   *)
(* request, and a result or an error member; never by the "Invalid JSON"   *)
(* message of the transport.                                               *)
C13_ToolCallAnsweredInShape ==
  (Dispatched /\ req.method = "tools/call") =>
    /\ Len(sent) = 1
    /\ DOMAIN sent[1] \ {"id"} \in {{"jsonrpc", "result"}, {"jsonrpc", "error"}}
    /\ sent[1].jsonrpc = "2.0"
    /\ CarriesId(sent[1])

-----------------------------------------------------------------------------
\* the last call went as far as writeFile, and fs.mkdirSync or
\* fs.writeFileSync threw
WriteFailed ==
  \E k \in 1..Len(io) : io[k].call \in {"mkdirSync", "writeFileSync"} /\ io[k].threw

MutatingTools == {"add_memory", "add_daily_note", "add_todo", "complete_todo"}

(* C14: when the file write of a mutating tool fails, the tool's result    *)
(* has success = false and an error member with the failure message.       *)
C14_FailedWriteReportsError ==
  (req.name \in MutatingTools /\ WriteFailed) =>
    /\ "success" \in DOMAIN result /\ result.success = FALSE
    /\ "error" \in DOMAIN result

(* C15: get_daily_note reports exists = false exactly when no document is  *)
(* stored for the date key, so a stored document with empty content is     *)
(* reported as existing; and complete_todo on a stored document, empty or  *)
(* not, does not answer "Daily note not found".                            *)
C15_AbsentOnlyWhenNoDocument ==
  /\ (Called("get_daily_note") /\ Reliable)
       => (result.exists <=> Target \in DOMAIN files)
  /\ (Called("complete_todo") /\ Target \in DOMAIN before /\ Reliable)
       => ~HasError(result, "Daily note not found")

\* the content of the memory document, empty when there is none
MemoryOf(fs) == IF memoryFile \in DOMAIN fs THEN fs[memoryFile] ELSE <<>>

(* C16: the memory document is append-only: every step leaves its old      *)
(* content as a prefix of the new; add_memory extends it by exactly one    *)
(* `\n## <category>\n- **<timestamp>**: <entry>` section or leaves it, and *)
(* a call of any other tool leaves it as it was.                           *)
C16_MemoryAppendOnly ==
  [][ LET old == MemoryOf(files)
          new == MemoryOf(files')
      IN Reliable' =>
         /\ startsWith(new, old)
         /\ (Handled /\ req'.name # "add_memory") => new = old
         /\ (Handled /\ req'.name = "add_memory") =>
              \/ new = old
              \/ new = old \o memoryEntry(result'.category, result'.timestamp,
                                          result'.entry) ]_vars

-----------------------------------------------------------------------------
\* the lines of a buffer that hold a whole well-formed request (a message
\* with an id, other than notifications/initialized)
RequestLines(buf) ==
  {i \in 1..Len(buf) : /\ buf[i].text = "json"
                       /\ buf[i].msg.id # absent
                       /\ buf[i].msg.method # "notifications/initialized"}

(* C17: every well-formed request read from standard input is dispatched   *)
(* and answered with a response that carries its id, whatever follows it:  *)
(* the step that ends a frame answers every request the buffer holds, and  *)
(* when the input has ended no request is left in the buffer.              *)
C17_EveryRequestAnswered ==
  /\ [](eof => RequestLines(buffer) = {})
  /\ [][FrameStep =>
          \A i \in RequestLines(buffer) :
            \E k \in 1..Len(sent') :
              "id" \in DOMAIN sent'[k] /\ <<sent'[k].id>> = buffer[i].msg.id]_vars

(* C19: the step that ends a frame JSON.parse rejects writes exactly one   *)
(* {error: "Invalid JSON: ..."} line, makes no fs call, changes no file    *)
(* and no directory, and leaves the buffer empty; and what the step that   *)
(* ends a well-formed frame does is fixed by that frame's message and the  *)
(* file system alone, whatever frames were received before.                *)
C19_MalformedFrameIsContained ==
  [][ /\ (FrameStep /\ ~JSONparse(buffer).ok) =>
           /\ sent' = <<[error |-> "Invalid JSON: SyntaxError"]>>
           /\ nsent' = nsent + 1
           /\ io' = <<>>
           /\ files' = files /\ dirs' = dirs
           /\ buffer' = <<>>
      /\ (FrameStep /\ JSONparse(buffer).ok) =>
           /\ <<sent', files', dirs'>> \in
                {<<h.sent, h.files, h.dirs>> :
                   h \in {handleMessage(disk, clock, JSONparse(buffer).value, noFault)}}
           /\ buffer' = <<>> ]_vars

\* a malformed frame has just been rejected, after an earlier frame stored
\* a daily note
C19_Witness ==
  /\ event = blankLine
  /\ result = [threw |-> "SyntaxError"]
  /\ sent = <<[error |-> "Invalid JSON: SyntaxError"]>>
  /\ buffer = <<>>
  /\ nsent = 2
  /\ notePath(date1) \in DOMAIN files

-----------------------------------------------------------------------------
(* C20: when complete_todo matches a pending line, the line it stores is   *)
(* the original line with its first `[ ]` replaced by `[x]` and every      *)
(* other character, leading and trailing white space included, kept.       *)
C20_OnlyMarkerReplaced ==
  (Called("complete_todo") /\ Succeeded) =>
    LET old == split(before[Target], "\n")
        new == split(files[Target], "\n")
        j == Min(PendingLines(before[Target], String(req.args.todo)))
    IN new[j] = replace(old[j], todoMarker, doneMarker)

-----------------------------------------------------------------------------
\* position of a call of a process in the order of fs calls
Pos(p, call) == CHOOSE k \in 1..Len(order) : order[k] = [proc |-> p, call |-> call]

\* position of the call that gave the process the content it extends: its
\* readFileSync, or its existsSync when that found no file
ReadPos(p) ==
  IF \E k \in 1..Len(order) : order[k] = [proc |-> p, call |-> "readFileSync"]
  THEN Pos(p, "readFileSync")
  ELSE Pos(p, "existsSync")

\* the addTODO of p was over before q made its first fs call
Before(p, q) == Pos(p, "write") < Pos(q, "existsSync")

\* one addTODO was over before the other started
Sequential == Before("server", "other") \/ Before("other", "server")

\* the whole addTODO of q fell between the read of p and the call by which
\* p starts to write
Between(q, p) ==
  /\ ReadPos(p) < Pos(q, "existsSync")
  /\ Pos(q, "write") < Pos(p, "existsSyncDir")

BothDone == \A p \in Procs : pc[p] = "done"

HoldsItem(p) == includes(files[notePath(date1)], todoEntry(local[p].todo))

(* C18: once the server's add_todo and the other process's add on the same *)
(* note are both over: if one was over before the other started, the note  *)
(* holds both items; if the whole add of the other process fell between    *)
(* the server's read and the server's write, the note is what the server   *)
(* wrote, with the server's item and without the other item (and likewise  *)
(* with the two exchanged); and however the two overlapped, the note holds *)
(* the item of the process that wrote last.                                *)
C18_LastWriteWins ==
  BothDone =>
    LET last == order[Len(order)].proc
    IN /\ Sequential => \A p \in Procs : HoldsItem(p)
       /\ \A p \in Procs : \A q \in Procs \ {p} :
            Between(q, p) => /\ files[notePath(date1)] = local[p].newContent
                             /\ HoldsItem(p) /\ ~HoldsItem(q)
       /\ HoldsItem(last)

\* the other process read and wrote between the server's read and write of
\* a note that had content, and its item is gone
C18_Witness ==
  /\ BothDone
  /\ Between("other", "server")
  /\ startsWith(files[notePath(date1)], todoNote)
  /\ HoldsItem("server") /\ ~HoldsItem("other")

-----------------------------------------------------------------------------
\* the lines of a document get_todos is to list, by their place (1-based)
TodoLines(content) ==
  LET lines == split(content, "\n")
  IN {j \in 1..Len(lines) : isTodoLine(lines[j])}

(* C21: get_todos returns todos, date and count with count the number of   *)
(* todos, for every date; for an absent note todos is empty and count is   *)
(* 0; otherwise todos lists in document order exactly the lines whose      *)
(* trimmed form starts with `[ ]` or `[x]`, done being true exactly for    *)
(* the `[x]` lines and line the zero-based index of the line.              *)
C21_GetTodosShape ==
  (Called("get_todos") /\ Reliable) =>
    /\ {"todos", "date", "count"} \subseteq DOMAIN result
    /\ result.count = Len(result.todos)
    /\ LET content == ContentOf(files, Target)
           todos == result.todos
       IN IF content = null
          THEN todos = <<>> /\ result.count = 0
          ELSE LET lines == split(content, "\n")
               IN /\ Len(todos) = Cardinality(TodoLines(content))
                  /\ \A k \in 1..Len(todos) :
                       /\ todos[k].line + 1 \in TodoLines(content)
                       /\ todos[k].done
                            <=> startsWith(trim(lines[todos[k].line + 1]), doneMarker)
                  /\ \A k \in 1..(Len(todos) - 1) : todos[k].line < todos[k + 1].line

\* the files the last call created or changed
Modified == {p \in DOMAIN files : ContentOf(before, p) # files[p]}

NoteTools == {"add_daily_note", "add_todo", "complete_todo"}

(* C22: whatever the date argument, add_daily_note, add_todo and           *)
(* complete_todo modify at most one file, and that file lies in the        *)
(* daily-note directory; the memory document and every file outside the    *)
(* directory are left as they were.                                        *)
C22_NoteToolsStayInNoteDir ==
  (req.name \in NoteTools /\ Reliable) =>
    /\ Cardinality(Modified) <= 1
    /\ \A p \in Modified : dirname(p) = memoryDir
    /\ DOMAIN before \subseteq DOMAIN files

====
